---- MODULE Spec2Model ----
(***************************************************************************)
(* PokemonService (src/unnamed/part_000) over a document store with unique *)
(* indexes on name and no.  Strings are sequences of one-character         *)
(* strings, so that lower-casing, number parsing and the ObjectId shape    *)
(* test are computed character by character.  Every store call is one     *)
(* atomic step; findOne and update span several store calls and are       *)
(* interleaved with the other requests.                                    *)
(***************************************************************************)
EXTENDS Integers, Sequences, FiniteSets, TLC

VARIABLES store, nextId, req, last, defaultLimit

vars == <<store, nextId, req, last, defaultLimit>>

(***************************************************************************)
(* Bounds of the model.                                                    *)
(***************************************************************************)
\* documents the store ever inserts (an ObjectId is never issued twice)
MaxDocs == 2
\* numbers above NumCap are collapsed into NumCap (no ordinal input reaches it)
NumCap == 1000
\* largest limit / offset a list request carries
MaxPage == 3
\* documents of the store contents list is applied to
MaxListDocs == 5

\* request slots that can be inside findOne / update at the same time
Slots == {"r1", "r2"}

(***************************************************************************)
(* Characters and strings.                                                 *)
(***************************************************************************)
Digits == {"0", "1", "2", "3", "4", "5", "6", "7", "8", "9"}

DigitVal ==
  ("0" :> 0) @@ ("1" :> 1) @@ ("2" :> 2) @@ ("3" :> 3) @@ ("4" :> 4) @@
  ("5" :> 5) @@ ("6" :> 6) @@ ("7" :> 7) @@ ("8" :> 8) @@ ("9" :> 9)

DigitChar ==
  (0 :> "0") @@ (1 :> "1") @@ (2 :> "2") @@ (3 :> "3") @@ (4 :> "4") @@
  (5 :> "5") @@ (6 :> "6") @@ (7 :> "7") @@ (8 :> "8") @@ (9 :> "9")

\* the letters of the model's alphabet, upper case to lower case
UpperToLower ==
  ("A" :> "a") @@ ("F" :> "f") @@ ("I" :> "i") @@ ("K" :> "k") @@
  ("P" :> "p") @@ ("V" :> "v") @@ ("Y" :> "y")

HexChars == Digits \cup {"a", "f", "A", "F"}

\* String.prototype.toLocaleLowerCase / toLowerCase on the model's alphabet
ToLower(s) ==
  [i \in 1..Len(s) |-> IF s[i] \in DOMAIN UpperToLower THEN UpperToLower[s[i]] ELSE s[i]]

\* !isNaN(+term): over the model's alphabet (digits and the letters above, no
\* sign, point, exponent, radix prefix or blank) a string converts to a number
\* exactly when all its characters are digits; the empty string converts to 0.
IsNumeric(s) == \A i \in 1..Len(s) : s[i] \in Digits

Saturate(n) == IF n > NumCap THEN NumCap ELSE n

RECURSIVE DigitsValue(_, _)
DigitsValue(s, acc) ==
  IF s = <<>> THEN acc
  ELSE DigitsValue(Tail(s), Saturate(acc * 10 + DigitVal[Head(s)]))

\* +term for a numeric string
ToNumber(s) == DigitsValue(s, 0)

\* length of the hexadecimal form of a store identifier
ObjectIdLen == 24

\* mongoose isValidObjectId on a string: the 24 character hexadecimal form
IsValidObjectId(s) == Len(s) = ObjectIdLen /\ \A i \in 1..Len(s) : s[i] \in HexChars

\* the identifier the store assigns to its k-th insert: 24 hexadecimal characters,
\* with a letter in it for odd k and made of digits only for even k
ObjectId(k) ==
  [i \in 1..ObjectIdLen |->
     IF i = 1 THEN "6"
     ELSE IF i = 2 THEN (IF k % 2 = 1 THEN "a" ELSE "5")
     ELSE IF i = ObjectIdLen THEN DigitChar[k % 10]
     ELSE "0"]

(***************************************************************************)
(* Documents and the store.                                                *)
(***************************************************************************)
\* Pokemon | null: the null of findOne
NoDoc == [id |-> <<>>, name |-> <<>>, no |-> 0]

\* the fields of the Pokemon schema that carry a unique index
UniqueFields == {"name", "no"}

\* the unique indexes a candidate document violates against the other documents
Violations(docs, cand) ==
  {f \in UniqueFields : \E d \in docs : d.id # cand.id /\ d[f] = cand[f]}

\* error.code of the store's duplicate-key error
DupKeyCode == 11000

DupError(key) == [code |-> DupKeyCode, keyValue |-> {key}]

\* any other failure of a store call (connection lost, timeout, ...)
OtherError == [code |-> 0, keyValue |-> {}]

\* the index the store names in its duplicate-key error: one of those violated
\* (the choice is the store's; without a violation there is nothing to choose)
KeyChoices(docs, cand, fault) ==
  IF fault \/ Violations(docs, cand) = {} THEN {"name"} ELSE Violations(docs, cand)

\* pokemonModel.create(dto): insert under the unique indexes
ModelCreate(docs, id, dto, fault, key) ==
  LET doc == [id |-> id, name |-> dto.name, no |-> dto.no]
  IN  IF fault THEN [ok |-> FALSE, error |-> OtherError, docs |-> docs, doc |-> NoDoc]
      ELSE IF Violations(docs, doc) # {}
        THEN [ok |-> FALSE, error |-> DupError(key), docs |-> docs, doc |-> NoDoc]
      ELSE [ok |-> TRUE, error |-> OtherError, docs |-> docs \cup {doc}, doc |-> doc]

\* { ...pokemon.toJSON(), ...updatePokemonDto }
Merge(doc, dto) == [f \in DOMAIN doc |-> IF f \in DOMAIN dto THEN dto[f] ELSE doc[f]]

\* pokemon.updateOne(dto): update of the document with pokemon's _id, if it is
\* still there, under the unique indexes; matched is the store's matchedCount
DocUpdateOne(docs, pokemon, dto, fault, key) ==
  LET target == {d \in docs : d.id = pokemon.id}
      new == {Merge(d, dto) : d \in target}
  IN  IF fault THEN [ok |-> FALSE, error |-> OtherError, docs |-> docs, matched |-> 0]
      ELSE IF \E n \in new : Violations(docs, n) # {}
        THEN [ok |-> FALSE, error |-> DupError(key), docs |-> docs, matched |-> 0]
      ELSE [ok |-> TRUE, error |-> OtherError, docs |-> (docs \ target) \cup new,
            matched |-> Cardinality(target)]

UpdateKeyChoices(docs, pokemon, dto, fault) ==
  IF \E d \in docs : d.id = pokemon.id
    THEN KeyChoices(docs, Merge(CHOOSE d \in docs : d.id = pokemon.id, dto), fault)
    ELSE {"name"}

\* pokemonModel.deleteOne({_id})
ModelDeleteOne(docs, id) ==
  LET target == {d \in docs : d.id = id}
  IN  [docs |-> docs \ target, deletedCount |-> Cardinality(target)]

\* the documents one point query of findOne matches
Matches(by, term, d) ==
  CASE by = "no"   -> d.no = ToNumber(term)
    [] by = "id"   -> d.id = term
    [] by = "name" -> d.name = ToLower(term)

QueryHits(docs, by, term) ==
  LET hits == {d \in docs : Matches(by, term, d)}
  IN  IF hits = {} THEN {NoDoc} ELSE hits

RECURSIVE SortByNo(_)
SortByNo(docs) ==
  IF docs = {} THEN <<>>
  ELSE LET m == CHOOSE d \in docs : \A e \in docs : d.no <= e.no
       IN  <<m>> \o SortByNo(docs \ {m})

Skip(seq, n) == IF n >= Len(seq) THEN <<>> ELSE SubSeq(seq, n + 1, Len(seq))

\* cursor limit: 0 means no limit
Limit(seq, n) == IF n = 0 \/ n >= Len(seq) THEN seq ELSE SubSeq(seq, 1, n)

\* pokemonModel.find().limit(limit).skip(offset).sort({ no: 1 })
ModelFind(docs, limit, offset) == Limit(Skip(SortByNo(docs), offset), limit)

(***************************************************************************)
(* Configuration.                                                          *)
(***************************************************************************)
\* process.env.DEFAULT_LIMIT: not set, or a string
Unset == <<"undefined">>

EnvValues == {Unset, <<"0">>, <<"2">>}

DefaultPageSize == 5

\* EnvConfig().defaultLimit, read by the service's constructor
DefaultLimitOf(env) ==
  IF IsNumeric(env) /\ ToNumber(env) # 0 THEN ToNumber(env) ELSE DefaultPageSize

(***************************************************************************)
(* Inputs of the requests.                                                 *)
(***************************************************************************)
\* CreatePokemonDto.name: strings of at least 3 characters, in several casings;
\* one of them is made of digits
NameInputs == {<<"P", "i", "k">>, <<"P", "I", "K">>, <<"1", "2", "3">>}

\* CreatePokemonDto.no: positive integers
OrdinalInputs == {1, 123}

CreateDtos == [name : NameInputs, no : OrdinalInputs]

\* UpdatePokemonDto: any part of a CreatePokemonDto
UpdateDtos == {[name |-> <<"P", "i", "k">>], [no |-> 2]}

IdInputs == {ObjectId(1), ObjectId(2)}

\* the terms of findOne: a number, a number that is also a name, a name in
\* another casing than stored, and identifiers (the second one is also a number)
Terms == {<<"1">>, <<"1", "2", "3">>, <<"P", "I", "K">>} \cup IdInputs

\* the terms of update
UpdateTerms == {<<"1">>, ObjectId(1)}

(***************************************************************************)
(* PokemonService.                                                         *)
(***************************************************************************)
\* create without the lower-casing of line 33
CreateDtoAsGiven(dto) == dto

\* create, line 33: the name is lower-cased before the insert
CreateDto(dto) == [dto EXCEPT !.name = ToLower(dto.name)]

\* update without the lower-casing of line 103
UpdateDtoAsGiven(dto) == dto

\* update, lines 102-104: the name, when given, is lower-cased before the write
UpdateDto(dto) ==
  IF "name" \in DOMAIN dto /\ dto.name # <<>>
    THEN [dto EXCEPT !.name = ToLower(dto.name)]
    ELSE dto

\* handleExceptions without the test of line 144
HandleExceptionsNoDupTest(error) == [status |-> "Unavailable", fields |-> {}]

\* handleExceptions: the duplicate-key code becomes BadRequestException
\* ("DuplicateKey", with error.keyValue), anything else
\* InternalServerErrorException ("Unavailable")
HandleExceptions(error) ==
  IF error.code = DupKeyCode
    THEN [status |-> "DuplicateKey", fields |-> error.keyValue]
    ELSE [status |-> "Unavailable", fields |-> {}]

\* remove without the deletedCount test of line 127
RemoveStatusNoTest(deletedCount) == "ok"

\* remove, lines 127-130
RemoveStatus(deletedCount) == IF deletedCount = 0 THEN "NotFound" ELSE "ok"

\* findOne, line 73 and line 77: what follows the lookup by number
AfterNo(pokemon, term) ==
  IF pokemon = NoDoc /\ IsValidObjectId(term) THEN "byId"
  ELSE IF pokemon = NoDoc THEN "byName"
  ELSE "done"

\* findOne without the !pokemon test of line 77
NextStageNameAlways(stage, pokemon, term) ==
  CASE stage = "start"  -> IF IsNumeric(term) THEN "byNo" ELSE AfterNo(NoDoc, term)
    [] stage = "byNo"   -> IF pokemon = NoDoc /\ IsValidObjectId(term) THEN "byId" ELSE "byName"
    [] stage = "byId"   -> "byName"
    [] stage = "byName" -> "done"

\* findOne, lines 69-79: the store call that follows a stage
NextStage(stage, pokemon, term) ==
  CASE stage = "start"  -> IF IsNumeric(term) THEN "byNo" ELSE AfterNo(NoDoc, term)
    [] stage = "byNo"   -> AfterNo(pokemon, term)
    [] stage = "byId"   -> IF pokemon = NoDoc THEN "byName" ELSE "done"
    [] stage = "byName" -> "done"

\* the field a stage of findOne queries
StageField(stage) ==
  CASE stage = "byNo" -> "no" [] stage = "byId" -> "id" [] stage = "byName" -> "name"

QueryStages == {"byNo", "byId", "byName"}

\* findOne without the throw of lines 81-83
FindOneStatusNoThrow(pokemon) == "ok"

\* findOne, lines 81-85: NotFoundException when nothing was found
FindOneStatus(pokemon) == IF pokemon = NoDoc THEN "NotFound" ELSE "ok"

Idle == [op |-> "idle"]

NoResp == [op |-> "none"]

\* a store write by another request ends the quiet of the requests in flight
\* (quiet is a history flag: no document changed since the request started)
Touch(rq, changed) ==
  [s \in Slots |->
     IF changed /\ rq[s].op # "idle" THEN [rq[s] EXCEPT !.quiet = FALSE] ELSE rq[s]]

\* the response of a findOne or update request r
Response(r, dto, status, doc, tried, wrote, matched, fields, fault) ==
  [op |-> r.op, term |-> r.term, given |-> r.dto, dto |-> dto, status |-> status,
   doc |-> doc, tried |-> tried, quiet |-> r.quiet, wrote |-> wrote,
   matched |-> matched, fields |-> fields, fault |-> fault]

Request(op, term, dto) ==
  [op |-> op, term |-> term, dto |-> dto, stage |-> NextStage("start", NoDoc, term),
   pokemon |-> NoDoc, tried |-> <<>>, quiet |-> TRUE]

Init ==
  /\ store = {}
  /\ nextId = 0
  /\ req = [s \in Slots |-> Idle]
  /\ last = NoResp
  /\ defaultLimit = DefaultLimitOf(Unset)

\* create(createPokemonDto)
Create(input, fault, key) ==
  \E res \in {ModelCreate(store, ObjectId(nextId + 1), CreateDto(input), fault, key)} :
      /\ res.ok => nextId < MaxDocs
      /\ key \in KeyChoices(store, Merge(NoDoc, CreateDto(input)), fault)
      /\ store' = res.docs
      /\ nextId' = IF res.ok THEN nextId + 1 ELSE nextId
      /\ req' = Touch(req, res.ok)
      /\ last' = IF res.ok
                   THEN [op |-> "create", input |-> input, status |-> "ok",
                         doc |-> res.doc, fields |-> {}, fault |-> fault]
                   ELSE [op |-> "create", input |-> input,
                         status |-> HandleExceptions(res.error).status, doc |-> NoDoc,
                         fields |-> HandleExceptions(res.error).fields, fault |-> fault]
      /\ UNCHANGED defaultLimit

\* findOne(term) is called
StartFindOne(s, term) ==
  /\ req[s] = Idle
  /\ req' = [req EXCEPT ![s] = Request("resolve", term, <<>>)]
  /\ last' = NoResp
  /\ UNCHANGED <<store, nextId, defaultLimit>>

\* update(term, updatePokemonDto) is called
StartUpdate(s, term, dto) ==
  /\ req[s] = Idle
  /\ req' = [req EXCEPT ![s] = Request("update", term, dto)]
  /\ last' = NoResp
  /\ UNCHANGED <<store, nextId, defaultLimit>>

\* one point query of findOne, and what follows it up to the next store call
FindOneStep(s, fault, hit) ==
  LET r == req[s]
      tried == Append(r.tried, [by |-> StageField(r.stage), hit |-> hit])
      next == NextStage(r.stage, hit, r.term)
  IN  /\ r.op \in {"resolve", "update"}
      /\ r.stage \in QueryStages
      /\ hit \in QueryHits(store, StageField(r.stage), r.term)
      /\ IF fault
           THEN /\ req' = [req EXCEPT ![s] = Idle]
                /\ last' = Response(r, r.dto, "StoreError", NoDoc, r.tried, FALSE, 0, {}, TRUE)
         ELSE IF next # "done"
           THEN /\ req' = [req EXCEPT ![s] = [r EXCEPT !.stage = next, !.pokemon = hit,
                                                       !.tried = tried]]
                /\ last' = NoResp
         ELSE IF r.op = "update" /\ FindOneStatus(hit) = "ok"
           THEN /\ req' = [req EXCEPT ![s] = [r EXCEPT !.stage = "write", !.pokemon = hit,
                                                       !.tried = tried]]
                /\ last' = NoResp
         ELSE /\ req' = [req EXCEPT ![s] = Idle]
              /\ last' = Response(r, r.dto, FindOneStatus(hit), hit, tried, FALSE, 0, {}, FALSE)
      /\ UNCHANGED <<store, nextId, defaultLimit>>

\* update, lines 102-111: the write, and the merged record or the translated error
UpdateWrite(s, fault, key) ==
  LET r == req[s]
      dto == UpdateDto(r.dto)
  IN  /\ r.op = "update"
      /\ r.stage = "write"
      /\ key \in UpdateKeyChoices(store, r.pokemon, dto, fault)
      /\ \E res \in {DocUpdateOne(store, r.pokemon, dto, fault, key)} :
           /\ store' = res.docs
           /\ req' = [Touch(req, res.docs # store) EXCEPT ![s] = Idle]
           /\ last' = IF res.ok
                        THEN Response(r, dto, "ok", Merge(r.pokemon, dto), r.tried,
                                      TRUE, res.matched, {}, fault)
                        ELSE Response(r, dto, HandleExceptions(res.error).status, NoDoc,
                                      r.tried, TRUE, 0,
                                      HandleExceptions(res.error).fields, fault)
      /\ UNCHANGED <<nextId, defaultLimit>>

\* remove(_id)
Remove(id, fault) ==
  LET res == ModelDeleteOne(store, id)
  IN  /\ store' = IF fault THEN store ELSE res.docs
      /\ req' = Touch(req, ~fault /\ res.deletedCount # 0)
      /\ last' = [op |-> "remove", id |-> id,
                  status |-> IF fault THEN "StoreError" ELSE RemoveStatus(res.deletedCount),
                  doc |-> NoDoc, fault |-> fault]
      /\ UNCHANGED <<nextId, defaultLimit>>

\* PaginationDto: limit and offset, each optional
PaginationDtos == UNION {[D -> 0..MaxPage] : D \in SUBSET {"limit", "offset"}}

\* findAll(paginationDto)
FindAll(dto, fault) ==
  LET limit == IF "limit" \in DOMAIN dto THEN dto.limit ELSE defaultLimit
      offset == IF "offset" \in DOMAIN dto THEN dto.offset ELSE 0
  IN  /\ last' = [op |-> "list", dto |-> dto,
                  status |-> IF fault THEN "StoreError" ELSE "ok",
                  items |-> IF fault THEN <<>> ELSE ModelFind(store, limit, offset),
                  fault |-> fault]
      /\ UNCHANGED <<store, nextId, req, defaultLimit>>

Next ==
  \/ \E input \in CreateDtos, fault \in BOOLEAN, key \in UniqueFields :
       Create(input, fault, key)
  \/ \E s \in {"r1"}, term \in Terms : StartFindOne(s, term)
  \/ \E s \in {"r1"}, term \in UpdateTerms, dto \in UpdateDtos : StartUpdate(s, term, dto)
  \/ \E s \in {"r1"}, fault \in BOOLEAN, hit \in store \cup {NoDoc} : FindOneStep(s, fault, hit)
  \/ \E s \in {"r1"}, fault \in BOOLEAN, key \in UniqueFields : UpdateWrite(s, fault, key)
  \/ \E id \in IdInputs, fault \in BOOLEAN : Remove(id, fault)

\* requests enter findOne and update one at a time, interleaved store call by
\* store call with create and remove; every store call may fail
Spec == Init /\ [][Next]_vars

\* two update requests in flight at once, with create and remove
ConcTerms == {<<"1">>}

ConcNext ==
  \/ \E input \in CreateDtos, key \in UniqueFields : Create(input, FALSE, key)
  \/ \E s \in Slots, term \in ConcTerms, dto \in UpdateDtos : StartUpdate(s, term, dto)
  \/ \E s \in Slots, hit \in store \cup {NoDoc} : FindOneStep(s, FALSE, hit)
  \/ \E s \in Slots, key \in UniqueFields : UpdateWrite(s, FALSE, key)
  \/ \E id \in IdInputs : Remove(id, FALSE)

ConcSpec == Init /\ [][ConcNext]_vars

\* the store contents findAll is applied to: documents with the ordinals of any
\* subset of 1..MaxListDocs, inserted in descending order of ordinal
ListDoc(k) ==
  [id |-> ObjectId(MaxListDocs + 1 - k), name |-> <<"p", "i", "k", DigitChar[k]>>, no |-> k]

ListInit ==
  /\ store \in SUBSET {ListDoc(k) : k \in 1..MaxListDocs}
  /\ nextId = MaxListDocs
  /\ req = [s \in Slots |-> Idle]
  /\ last = NoResp
  /\ defaultLimit \in {DefaultLimitOf(e) : e \in EnvValues}

ListNext == \E dto \in PaginationDtos, fault \in BOOLEAN : FindAll(dto, fault)

ListSpec == ListInit /\ [][ListNext]_vars

(***************************************************************************)
(* The claims.                                                             *)
(***************************************************************************)
\* the decimal string of a positive number
RECURSIVE NumberToString(_)
NumberToString(n) ==
  IF n < 10 THEN <<DigitChar[n]>> ELSE Append(NumberToString(n \div 10), DigitChar[n % 10])

\* the lookup strategies a term can be looked up by, and their order
Applicable(term) ==
  {b \in {"no", "id", "name"} :
     \/ b = "no" /\ IsNumeric(term)
     \/ b = "id" /\ IsValidObjectId(term)
     \/ b = "name"}

Rank(by) == CASE by = "no" -> 1 [] by = "id" -> 2 [] by = "name" -> 3

\* the one strategy the shape of a term selects
ShapeStrategy(term) ==
  IF IsNumeric(term) THEN "no" ELSE IF IsValidObjectId(term) THEN "id" ELSE "name"

\* a findOne that the store answered
Resolved == last.op = "resolve" /\ ~last.fault

\* C1 as stated: resolve(term) queries by exactly one strategy, the one the shape
\* of term selects, and returns that query's match or NotFound.
C1_SingleStrategy ==
  Resolved =>
    /\ Len(last.tried) = 1
    /\ last.tried[1].by = ShapeStrategy(last.term)
    /\ last.quiet => last.doc \in QueryHits(store, ShapeStrategy(last.term), last.term)
    /\ last.status = IF last.doc = NoDoc THEN "NotFound" ELSE "ok"

\* C1 amended: resolve(term) tries the strategies applicable to term in the order
\* ordinal, storageId, name; a strategy is tried only after every earlier
\* applicable one found nothing, none is tried after a match, each query returns
\* the store's match, and the result is the first match, or NotFound when the
\* name lookup finds nothing either.
C1_OrderedFallback ==
  Resolved =>
    LET t == last.tried
        n == Len(last.tried)
    IN  /\ n >= 1
        /\ {t[i].by : i \in 1..n} =
             {b \in Applicable(last.term) : Rank(b) <= Rank(t[n].by)}
        /\ \A i, j \in 1..n : i < j => Rank(t[i].by) < Rank(t[j].by)
        /\ \A i \in 1..(n - 1) : t[i].hit = NoDoc
        /\ last.quiet => \A i \in 1..n : t[i].hit \in QueryHits(store, t[i].by, last.term)
        /\ last.doc = t[n].hit
        /\ last.status = IF last.doc = NoDoc THEN "NotFound" ELSE "ok"
        /\ last.status = "NotFound" => t[n].by = "name"

\* a resolve fell back from the ordinal lookup and found the record by its name
C1_Witness ==
  /\ Resolved /\ last.quiet /\ last.status = "ok"
  /\ Len(last.tried) >= 2
  /\ last.tried[1].by = "no"
  /\ last.doc \in store

\* C2 as stated: against a store that holds record R, resolve of R's ordinal as a
\* string, of R's storageId and of R's name in any casing each return R.  (The
\* resolve ran against the store as it is now: no document changed since it
\* started.  A record changed by update equals one a create could have produced.)
C2_RoundTrip ==
  (Resolved /\ last.quiet) =>
    \A R \in store :
      (\/ last.term = NumberToString(R.no)
       \/ last.term = R.id
       \/ ToLower(last.term) = R.name)
      => (last.status = "ok" /\ last.doc = R)

\* C3: no two persisted records share an ordinal or a name (ignoring case), under
\* every interleaving of the store calls of create, update and delete.
C3_Unique ==
  \A d, e \in store :
    d # e => (d.id # e.id /\ d.no # e.no /\ ToLower(d.name) # ToLower(e.name))

\* an update that resolved its record before another request wrote was rejected
\* by the store for a duplicate, with two records persisted
C3_Witness ==
  /\ last.op = "update" /\ last.status = "DuplicateKey" /\ ~last.quiet
  /\ Cardinality(store) = 2

\* C4: when the store answers the insert, a create whose ordinal or lower-cased
\* name is already taken fails with DuplicateKey naming a conflicting field and
\* leaves the store unchanged; any other create returns the new record, with the
\* lower-cased name, the ordinal and a fresh storageId, and adds just that record.
C4_CreateOutcome ==
  [][(last'.op = "create" /\ ~last'.fault) =>
       LET n == ToLower(last'.input.name)
           taken == {f \in {"name", "no"} :
                       \/ f = "name" /\ \E d \in store : ToLower(d.name) = n
                       \/ f = "no" /\ \E d \in store : d.no = last'.input.no}
       IN  IF taken # {}
             THEN /\ last'.status = "DuplicateKey"
                  /\ last'.fields # {} /\ last'.fields \subseteq taken
                  /\ store' = store
             ELSE /\ last'.status = "ok"
                  /\ last'.doc.name = n /\ last'.doc.no = last'.input.no
                  /\ IsValidObjectId(last'.doc.id)
                  /\ \A d \in store : d.id # last'.doc.id
                  /\ store' = store \cup {last'.doc}]_vars

\* a create with a free ordinal and a name stored in another casing was refused,
\* the error naming name
C4_Witness ==
  /\ last.op = "create" /\ last.status = "DuplicateKey" /\ last.fields = {"name"}
  /\ \E d \in store : d.name = ToLower(last.input.name) /\ d.name # last.input.name
  /\ \A d \in store : d.no # last.input.no

\* C5: the name of every persisted record equals its own lower-cased form.
C5_LowerCase == \A d \in store : d.name = ToLower(d.name)

\* an update given a name with upper-case letters wrote it to a persisted record
C5_Witness ==
  /\ last.op = "update" /\ last.status = "ok" /\ last.matched = 1
  /\ "name" \in DOMAIN last.given
  /\ last.given.name # ToLower(last.given.name)
  /\ \E d \in store : d.id = last.doc.id /\ d.name = ToLower(last.given.name)

\* C6: when the store answers the delete, delete(storageId) of an identifier no
\* record has fails with NotFound and leaves the store unchanged; otherwise it
\* removes exactly the record with that identifier and returns no record.
C6_RemoveOutcome ==
  [][(last'.op = "remove" /\ ~last'.fault) =>
       IF \E d \in store : d.id = last'.id
         THEN /\ last'.status = "ok"
              /\ last'.doc = NoDoc
              /\ store' = {d \in store : d.id # last'.id}
              /\ Cardinality(store') = Cardinality(store) - 1
         ELSE /\ last'.status = "NotFound"
              /\ store' = store]_vars

\* a delete of an unknown identifier was refused while a record was persisted
C6_Witness ==
  /\ last.op = "remove" /\ last.status = "NotFound"
  /\ store # {}

\* C7: an update whose term resolves to no record (every lookup of its resolve
\* found nothing, or no record of the store it ran against matches the term)
\* fails with NotFound, has issued no write, and leaves the store unchanged.
C7_UpdateNotFound ==
  [][(/\ last'.op = "update" /\ ~last'.fault
      /\ \/ \A i \in 1..Len(last'.tried) : last'.tried[i].hit = NoDoc
         \/ /\ last'.quiet
            /\ \A b \in Applicable(last'.term) :
                 QueryHits(store, b, last'.term) = {NoDoc})
     => (last'.status = "NotFound" /\ ~last'.wrote /\ store' = store)]_vars

\* an update was refused with NotFound while records were persisted
C7_Witness ==
  /\ last.op = "update" /\ last.status = "NotFound" /\ ~last.wrote
  /\ last.given \in UpdateDtos
  /\ store # {}

\* C8 as stated: list(pageSize, offset) returns the records at positions
\* offset+1 .. offset+pageSize of the records in ascending order of ordinal
\* (fewer when the store has fewer), never more than pageSize records; an
\* omitted pageSize is the configured default and an omitted offset is 0.
C8_Page ==
  (last.op = "list" /\ ~last.fault) =>
    LET size == IF "limit" \in DOMAIN last.dto THEN last.dto.limit ELSE defaultLimit
        off == IF "offset" \in DOMAIN last.dto THEN last.dto.offset ELSE 0
        all == SortByNo(store)
        left == IF off >= Len(all) THEN 0 ELSE Len(all) - off
        n == IF size < left THEN size ELSE left
    IN  /\ last.items = [i \in 1..n |-> all[off + i]]
        /\ Len(last.items) <= size

\* C9 as stated: a failed store call reaches the caller as DuplicateKey (the
\* store's duplicate-key error) or Unavailable (any other store error), never
\* as the store's own error.
C9_Translated ==
  last.op # "none" =>
    /\ last.status # "StoreError"
    /\ last.fault => last.status = "Unavailable"

\* C10 as stated: an update that returns a merged record has written to a record
\* that existed at the write, and that record then carries the partial's fields.
C10_WriteApplied ==
  (last.op = "update" /\ last.status = "ok") =>
    /\ last.matched = 1
    /\ \E d \in store :
         /\ d.id = last.doc.id
         /\ \A f \in DOMAIN last.dto : d[f] = last.dto[f]

====
